---- MODULE Spec2Model ----
(***************************************************************************)
(* Model of the ml-service core: FeaturePreprocessor (preprocessing.py),   *)
(* TrafficPredictionModel and ModelManager (model.py), the labeled-row     *)
(* query of database.py and the startup hook of main.py.                   *)
(*                                                                         *)
(* Numbers are fixed-point: every feature value, speed and target is an    *)
(* integer count of 1/Unit (hundredths), so 0.33 is 33 and 60 km/h is      *)
(* 60 * Unit.  A cell of a record or of a DataFrame is a tagged value:     *)
(* a number, a Python bool, or null (None / NaN).                          *)
(***************************************************************************)
EXTENDS Integers, Sequences, FiniteSets, TLC

VARIABLES current_model, preprocessor, storage, now, result, calls

vars == <<current_model, preprocessor, storage, now, result, calls>>

-----------------------------------------------------------------------------
(* Values *)

Unit == 100

Num(x) == [t |-> "num", v |-> x]
Bool(b) == [t |-> "bool", v |-> IF b THEN 1 ELSE 0]
NaN == [t |-> "null", v |-> 0]
IsNull(c) == c.t = "null"

None == [none |-> TRUE]

\* `calls` holds the frames of the calls in progress; none when every call
\* runs to its end before the next one starts.
NoCalls == <<>>

\* An exception-free outcome and a raised exception, as a caller sees them.
Return(v) == [exc |-> "", msg |-> "", value |-> v]
Raise(e, m) == [exc |-> e, msg |-> m, value |-> None]

\* A local name: `v` is computed once and F reads it.
Let(v, F(_)) == F(v)

\* The value v with every lazily built part of it computed.
Computed(v) == CHOOSE x \in {v} : x = x

-----------------------------------------------------------------------------
(* The data source: the ml_features table, one row per timestamp.  The rows *)
(* are a fixed family; a call sees the first `size` of them (the table only *)
(* grows).  Some rows are unlabeled, some have nulls in optional columns.   *)

ml_features_row(ts) ==
    [road_id |-> Num(((ts % 3) + 1) * Unit),
     timestamp |-> Num(ts * Unit),
     hour_of_day |-> Num(((ts * 5) % 24) * Unit),
     day_of_week |-> Num((ts % 7) * Unit),
     day_of_month |-> Num(((ts % 28) + 1) * Unit),
     month |-> Num(((ts % 12) + 1) * Unit),
     is_rush_hour |-> Bool(ts % 3 = 0),
     is_weekend |-> Bool(ts % 7 >= 5),
     avg_speed_historical |-> IF ts % 5 = 0 THEN NaN ELSE Num((25 + 3 * (ts % 11)) * Unit),
     avg_congestion_level_encoded |-> IF ts % 4 = 1 THEN NaN ELSE Num(33 * (ts % 4)),
     traffic_std_deviation |-> Num((ts % 6) * Unit),
     temperature |-> IF ts % 4 = 0 THEN NaN ELSE Num((26 + (ts % 9)) * Unit),
     humidity |-> Num((60 + 2 * (ts % 10)) * Unit),
     wind_speed |-> Num((5 + (ts % 13)) * Unit),
     rain_probability |-> Num((10 * (ts % 8)) * Unit),
     weather_condition_encoded |-> Num((ts % 6) * Unit),
     is_raining |-> Bool(ts % 8 >= 6),
     event_nearby |-> Bool(ts % 5 = 2),
     event_type_encoded |-> IF ts % 5 = 2 THEN Num(((ts % 7) + 1) * Unit) ELSE NaN,
     event_distance_km |-> IF ts % 5 = 2 THEN Num((ts % 4) * Unit) ELSE NaN,
     zone_id |-> Num(((ts % 2) + 1) * Unit),
     road_type_encoded |-> Num((ts % 5) * Unit),
     lanes |-> IF ts % 6 = 3 THEN NaN ELSE Num(((ts % 3) + 1) * Unit),
     max_speed_kmh |-> IF ts % 7 = 3 THEN NaN ELSE Num((30 + 10 * (ts % 4)) * Unit),
     arroyo_nearby |-> Bool(ts % 4 = 2),
     arroyo_risk_level_encoded |-> Num(25 * (ts % 5)),
     arroyo_distance_km |-> IF ts % 4 = 2 THEN Num((ts % 3) * Unit) ELSE NaN,
     target_speed_kmh |-> IF ts % 6 = 0 THEN NaN
                          ELSE IF ts % 13 = 0 THEN Num(-(5 * Unit))
                          ELSE Num((12 + 4 * (ts % 10)) * Unit),
     target_congestion_level |-> Num((ts % 4) * Unit)]

RECURSIVE Descending(_)
Descending(n) == IF n = 0 THEN <<>> ELSE <<n>> \o Descending(n - 1)

\* fetch_training_data(limit) on a table of `size` rows: the labeled rows,
\* newest first, at most `limit` of them (a limit of None or 0 adds no LIMIT).
Labeled(size) ==
    SelectSeq([i \in 1..size |-> ml_features_row(Descending(size)[i])],
              LAMBDA r : ~IsNull(r.target_speed_kmh))

Limited(rows, limit) ==
    IF limit = 0 \/ limit >= Len(rows) THEN rows ELSE SubSeq(rows, 1, limit)

fetch_training_data(size, limit) == Computed(Limited(Labeled(size), limit))

-----------------------------------------------------------------------------
(* Bounds of the model *)

MaxTableRows == 14
DataLimit == 10
MaxClock == 2

TableSizes == {MaxTableRows - 7, MaxTableRows}
Limits == {0, DataLimit}

\* What the data source returns, computed once per table content and limit.
RECURSIVE FetchTable(_)
FetchTable(keys) ==
    IF keys = {} THEN <<>>
    ELSE Let(CHOOSE x \in keys : TRUE,
             LAMBDA k : (k :> fetch_training_data(k[1], k[2])) @@ FetchTable(keys \ {k}))

FetchedTrainingData == FetchTable(TableSizes \X Limits)

\* The batches a training call can get.
TrainingBatches == {FetchedTrainingData[k] : k \in TableSizes \X Limits}

-----------------------------------------------------------------------------
(* FeaturePreprocessor *)

FEATURE_ORDER ==
    << "hour_of_day", "day_of_week", "day_of_month", "month",
       "is_rush_hour", "is_weekend", "avg_speed_historical",
       "avg_congestion_level_encoded", "traffic_std_deviation",
       "temperature", "humidity", "wind_speed", "rain_probability",
       "weather_condition_encoded", "is_raining", "event_nearby",
       "event_type_encoded", "event_distance_km", "road_type_encoded",
       "lanes", "max_speed_kmh", "arroyo_nearby",
       "arroyo_risk_level_encoded", "arroyo_distance_km" >>

NFeatures == Len(FEATURE_ORDER)

bool_columns ==
    {"is_rush_hour", "is_weekend", "is_raining", "event_nearby", "arroyo_nearby"}

Columns(data) == UNION {DOMAIN data[i] : i \in 1..Len(data)}

\* pd.DataFrame(list of dicts): the columns are the union of the keys, a key
\* a record lacks is NaN in its row.
DataFrame(data) ==
    [columns |-> Columns(data),
     rows |-> [i \in 1..Len(data) |->
                 [c \in Columns(data) |->
                    IF c \in DOMAIN data[i] THEN data[i][c] ELSE NaN]]]

ColumnValues(df, c) == [i \in 1..Len(df.rows) |-> df.rows[i][c]]

\* Series.astype(int) on one cell: bool -> 0/1, a number is truncated to an
\* integer, a null cannot be converted.
CanCastInt(c) == ~IsNull(c)
AsTypeInt(c) ==
    IF c.t = "bool" THEN Num(c.v * Unit) ELSE Num((c.v \div Unit) * Unit)

RECURSIVE InsertSorted(_, _)
InsertSorted(s, x) ==
    IF s = <<>> THEN <<x>>
    ELSE IF x <= Head(s) THEN <<x>> \o s
    ELSE <<Head(s)>> \o InsertSorted(Tail(s), x)

RECURSIVE SortedValues(_)
SortedValues(s) == IF s = <<>> THEN <<>> ELSE InsertSorted(SortedValues(Tail(s)), Head(s))

NonNull(col) == SelectSeq(col, LAMBDA c : ~IsNull(c))

Values(col) == [i \in 1..Len(col) |-> col[i].v]

MiddleOf(vals) ==
    IF Len(vals) = 0 THEN NaN
    ELSE IF Len(vals) % 2 = 1 THEN Num(vals[(Len(vals) + 1) \div 2])
    ELSE Num((vals[Len(vals) \div 2] + vals[Len(vals) \div 2 + 1]) \div 2)

\* Series.median(): nulls are skipped; the median of nothing is NaN.
Median(col) == MiddleOf(SortedValues(Values(NonNull(col))))

numeric_fills(df) ==
    [avg_speed_historical |->
        IF "avg_speed_historical" \in df.columns
        THEN Median(ColumnValues(df, "avg_speed_historical"))
        ELSE Num(50 * Unit),
     avg_congestion_level_encoded |-> Num(33),
     traffic_std_deviation |-> Num(0),
     temperature |-> Num(30 * Unit),
     humidity |-> Num(75 * Unit),
     wind_speed |-> Num(15 * Unit),
     rain_probability |-> Num(20 * Unit),
     weather_condition_encoded |-> Num(1 * Unit),
     event_type_encoded |-> Num(0),
     event_distance_km |-> Num(10 * Unit),
     road_type_encoded |-> Num(2 * Unit),
     lanes |-> Num(2 * Unit),
     max_speed_kmh |-> Num(60 * Unit),
     arroyo_risk_level_encoded |-> Num(0),
     arroyo_distance_km |-> Num(5 * Unit)]

\* Series.fillna(value): a NaN fill value leaves the nulls in place.
FillNa(c, fill) == IF IsNull(c) THEN fill ELSE c

FillColumns(df, fills) ==
    [df EXCEPT !.rows =
       [i \in 1..Len(df.rows) |->
          [c \in df.columns |->
             IF c \in DOMAIN fills THEN FillNa(df.rows[i][c], fills[c])
             ELSE df.rows[i][c]]]]

_fill_missing_values(df) == FillColumns(df, Computed(numeric_fills(df)))

\* The bool columns of df after astype(int).
CastBoolColumns(df) ==
    [df EXCEPT !.rows =
       [i \in 1..Len(df.rows) |->
          [c \in df.columns |->
             IF c \in bool_columns THEN AsTypeInt(df.rows[i][c]) ELSE df.rows[i][c]]]]

Castable(df) ==
    \A i \in 1..Len(df.rows) : \A c \in df.columns \cap bool_columns :
        CanCastInt(df.rows[i][c])

\* df[FEATURE_ORDER] after the absent features were added as 0: a matrix, one
\* row per record, one cell per FEATURE_ORDER entry.
SelectFeatures(df) ==
    [i \in 1..Len(df.rows) |->
       [j \in 1..NFeatures |->
          IF FEATURE_ORDER[j] \in df.columns THEN df.rows[i][FEATURE_ORDER[j]]
          ELSE Num(0)]]

\* prepare_features: the matrix, or the error of the bool cast (TypeError for
\* None, ValueError for NaN).
PreparedFeatures(data) ==
    IF ~Castable(DataFrame(data))
    THEN Raise("CastError", "cannot convert null to int")
    ELSE Return(Computed(SelectFeatures(
                   _fill_missing_values(CastBoolColumns(DataFrame(data))))))

\* prepare_features, computed once for each batch a training call can get.
TrainingFeatures == Computed([data \in TrainingBatches |-> PreparedFeatures(data)])

prepare_features(data) ==
    IF data \in TrainingBatches THEN TrainingFeatures[data] ELSE PreparedFeatures(data)

-----------------------------------------------------------------------------
(* StandardScaler, by its sufficient statistics: per column the number of   *)
(* non-null cells, their sum and their sum of squares (mean_ and var_ are   *)
(* sum/n and sumsq/n - (sum/n)^2).  A scaled matrix is kept symbolically as *)
(* the raw matrix together with the statistics it was standardized by.      *)

StandardScaler == [n_ |-> <<>>, sum_ |-> <<>>, sumsq_ |-> <<>>]

\* FeaturePreprocessor(): a fresh scaler, not fitted.
FeaturePreprocessor == [scaler |-> StandardScaler, is_fitted |-> FALSE]

RECURSIVE SumSeq(_)
SumSeq(s) == IF s = <<>> THEN 0 ELSE Head(s) + SumSeq(Tail(s))

Column(X, j) == [i \in 1..Len(X) |-> X[i][j]]

ColumnStats(col) ==
    [n |-> Len(col),
     sum |-> SumSeq(col),
     sumsq |-> SumSeq([i \in 1..Len(col) |-> col[i] * col[i]])]

StatsOf(stats) ==
    [n_ |-> [j \in 1..NFeatures |-> stats[j].n],
     sum_ |-> [j \in 1..NFeatures |-> stats[j].sum],
     sumsq_ |-> [j \in 1..NFeatures |-> stats[j].sumsq]]

\* StandardScaler.fit(X): nulls are disregarded.
FittedStatistics(X) ==
    Computed(StatsOf(Computed(
        [j \in 1..NFeatures |-> ColumnStats(Values(NonNull(Column(X, j))))])))

\* The matrices prepare_features makes of the training batches, and
\* StandardScaler.fit computed once for each of them.
TrainingMatrices == {TrainingFeatures[data].value : data \in TrainingBatches}

TrainingStatistics == Computed([X \in TrainingMatrices |-> FittedStatistics(X)])

ScalerFit(X) ==
    IF X \in TrainingMatrices THEN TrainingStatistics[X] ELSE FittedStatistics(X)

Matrix(by, X) == [by |-> by, of |-> X]

\* A method of the preprocessor yields its outcome and the attributes it
\* assigned (`set`); Assign writes them into the instance.
Assign(pre, set) == [k \in DOMAIN pre |-> IF k \in DOMAIN set THEN set[k] ELSE pre[k]]

NoAssign == <<>>

\* fit_scaler: StandardScaler.fit resets the scaler, then rejects an empty
\* matrix; is_fitted is set only after a fit that returned.
fit_scaler(X) ==
    IF Len(X) = 0
    THEN [out |-> Raise("ValueError", "Found array with 0 sample(s)"),
          set |-> [scaler |-> StandardScaler]]
    ELSE [out |-> Return(None),
          set |-> [scaler |-> ScalerFit(X), is_fitted |-> TRUE]]

\* A variant of transform that always returns the raw values.
transform_unscaled(pre, X) == [out |-> Return(Matrix(None, X)), set |-> NoAssign]

\* transform: the raw values when not fitted, else scaler.transform(X), which
\* rejects a scaler without statistics and then an empty matrix.  It assigns
\* nothing.
transform(pre, X) ==
    [out |-> IF ~pre.is_fitted THEN Return(Matrix(None, X))
             ELSE IF pre.scaler = StandardScaler
             THEN Raise("NotFittedError", "This StandardScaler instance is not fitted yet")
             ELSE IF Len(X) = 0
             THEN Raise("ValueError", "Found array with 0 sample(s)")
             ELSE Return(Matrix(pre.scaler, X)),
     set |-> NoAssign]

\* dict.update, and the attributes assigned by one call after another.
Update(default_params, params) ==
    [k \in DOMAIN default_params \cup DOMAIN params |->
        IF k \in DOMAIN params THEN params[k] ELSE default_params[k]]

\* The rest of a method after a call that returned [out, set] on instance
\* pre: the call's error, or what K makes of its value on the instance as the
\* call left it; either way what the call assigned stays assigned.
Then(pre, called, K(_, _)) ==
    IF called.out.exc # "" THEN called
    ELSE Let(K(Assign(pre, called.set), called.out.value),
             LAMBDA rest : [out |-> rest.out, set |-> Update(called.set, rest.set)])

\* A variant of fit_transform that fits the scaler only when it has not been
\* fitted yet, and otherwise transforms by the scaler it finds.
fit_transform_once(pre, X) ==
    IF pre.is_fitted THEN transform(pre, X)
    ELSE Then(pre, fit_scaler(X), LAMBDA self, none : transform(self, X))

\* fit_transform: fit_scaler, then transform on the instance as fitted.
fit_transform(pre, X) ==
    Then(pre, fit_scaler(X), LAMBDA self, none : transform(self, X))

HasColumn(data, c) == \E i \in 1..Len(data) : c \in DOMAIN data[i]

\* prepare_training_data: (X, y), or the first error raised on the way.
prepare_training_data(pre, data) ==
    IF ~HasColumn(data, "target_speed_kmh")
    THEN [out |-> Raise("ValueError", "Training data must contain target_speed_kmh"),
          set |-> NoAssign]
    ELSE Then(pre, [out |-> prepare_features(data), set |-> NoAssign],
              LAMBDA self, X_df :
                 Then(self, fit_transform(self, X_df),
                      LAMBDA fitted, X :
                         [out |-> Return([X |-> X,
                                          y |-> Computed(ColumnValues(DataFrame(data),
                                                                      "target_speed_kmh"))]),
                          set |-> NoAssign]))

\* A variant of prepare_prediction_features that goes through fit_transform.
prepare_prediction_features_refit(pre, features_dict) ==
    Then(pre, [out |-> prepare_features(<<features_dict>>), set |-> NoAssign],
         LAMBDA self, df : fit_transform(self, df))

\* prepare_prediction_features: prepare_features of the one record, then
\* transform.
prepare_prediction_features(pre, features_dict) ==
    Then(pre, [out |-> prepare_features(<<features_dict>>), set |-> NoAssign],
         LAMBDA self, df : transform(self, df))

\* A variant of the comparison that is strict: speed_ratio > num/10.
RatioAbove(speed_kmh, max_speed_kmh, num) ==
    IF max_speed_kmh > 0 THEN 10 * speed_kmh > num * max_speed_kmh
    ELSE 10 * speed_kmh < num * max_speed_kmh

\* speed_ratio >= num/10 for speed_ratio = speed_kmh / max_speed_kmh.
RatioAtLeast(speed_kmh, max_speed_kmh, num) ==
    IF max_speed_kmh > 0 THEN 10 * speed_kmh >= num * max_speed_kmh
    ELSE 10 * speed_kmh <= num * max_speed_kmh

\* encode_congestion_level(speed_kmh, max_speed_kmh): max_speed_kmh is the cell
\* the caller passes (None == 0 is False, and a division by None raises).
encode_congestion_level(speed_kmh, max_speed_kmh) ==
    IF IsNull(max_speed_kmh)
    THEN Raise("TypeError", "unsupported operand type(s) for /: 'float' and 'NoneType'")
    ELSE Let(IF max_speed_kmh.v = 0 THEN 60 * Unit ELSE max_speed_kmh.v,
             LAMBDA max_speed :
                IF RatioAtLeast(speed_kmh, max_speed, 7) THEN Return("low")
                ELSE IF RatioAtLeast(speed_kmh, max_speed, 5) THEN Return("moderate")
                ELSE IF RatioAtLeast(speed_kmh, max_speed, 3) THEN Return("high")
                ELSE Return("severe"))

-----------------------------------------------------------------------------
(* config.py *)

settings ==
    [model_type |-> "lightgbm",
     model_path |-> "./models/traffic_model.pkl",
     feature_scaler_path |-> "./models/scaler.pkl",
     random_state |-> 42,
     n_estimators |-> 100,
     max_depth |-> 10]

\* train_test_split(test_size = 0.2): ceil(0.2 n) test rows, the rest train.
TestCount(n) == (2 * n + 9) \div 10

\* The seeded shuffle, as a fixed choice of the test positions.
TestRows(n) == {((settings.random_state + j) % n) + 1 : j \in 0..(TestCount(n) - 1)}

-----------------------------------------------------------------------------
(* The regression estimators (LightGBM, RandomForest, XGBoost) stand behind  *)
(* one abstraction: a fitted estimator is a stump on the standardized        *)
(* avg_speed_historical column, split at zero, each leaf the mean target of  *)
(* its training rows.  scaled_by records the statistics the training matrix  *)
(* was standardized by.                                                      *)

SplitFeature == CHOOSE j \in 1..NFeatures : FEATURE_ORDER[j] = "avg_speed_historical"

\* The standardized value of cell c is positive.
Above(by, c) ==
    IF IsNull(c) THEN FALSE
    ELSE IF by = None THEN c.v > 0
    ELSE by.n_[SplitFeature] * c.v > by.sum_[SplitFeature]

Mean(vals, default) == IF Len(vals) = 0 THEN default ELSE SumSeq(vals) \div Len(vals)

RECURSIVE SetToSortedSeq(_)
SetToSortedSeq(S) ==
    IF S = {} THEN <<>>
    ELSE Let(CHOOSE x \in S : \A z \in S : x <= z,
             LAMBDA m : <<m>> \o SetToSortedSeq(S \ {m}))

RowsAbove(X, idx) == SelectSeq(idx, LAMBDA i : Above(X.by, X.of[i][SplitFeature]))
RowsBelow(X, idx) == SelectSeq(idx, LAMBDA i : ~Above(X.by, X.of[i][SplitFeature]))
Targets(y, idx) == [k \in 1..Len(idx) |-> y[idx[k]].v]

Learn(X, y, idx) ==
    [scaled_by |-> X.by,
     left |-> Mean(Targets(y, RowsBelow(X, idx)), Mean(Targets(y, idx), 0)),
     right |-> Mean(Targets(y, RowsAbove(X, idx)), Mean(Targets(y, idx), 0))]

EstimatorFit(est, X, y, rows) ==
    IF est.params["n_estimators"] <= 0
    THEN Raise("ValueError", "n_estimators must be greater than 0")
    ELSE IF \E i \in rows : IsNull(y[i])
    THEN Raise("ValueError", "Input y contains NaN")
    ELSE Return([est EXCEPT !.fitted = Learn(X, y, SetToSortedSeq(rows))])

EstimatorPredict(est, X) ==
    [i \in 1..Len(X.of) |->
        IF Above(X.by, X.of[i][SplitFeature]) THEN est.fitted.right ELSE est.fitted.left]

-----------------------------------------------------------------------------
(* TrafficPredictionModel *)

NoHyperparameters == <<>>

TrafficPredictionModel(model_type) ==
    [model_type |-> model_type,
     model |-> None,
     metrics |-> None,
     trained_at |-> None,
     training_samples |-> 0,
     test_samples |-> 0,
     model_version |-> "1.0.0"]

\* _create_model: the estimator for self.model_type, its defaults overridden
\* key by key; learning_rate 0.1 is in 1/Unit.
_create_model(model_type, hyperparameters) ==
    IF model_type = "lightgbm"
    THEN Return([class |-> "LGBMRegressor", fitted |-> None,
                 params |-> Update([n_estimators |-> settings.n_estimators,
                                    max_depth |-> settings.max_depth,
                                    learning_rate |-> 10,
                                    num_leaves |-> 31,
                                    random_state |-> settings.random_state,
                                    verbose |-> -1], hyperparameters)])
    ELSE IF model_type = "randomforest"
    THEN Return([class |-> "RandomForestRegressor", fitted |-> None,
                 params |-> Update([n_estimators |-> settings.n_estimators,
                                    max_depth |-> settings.max_depth,
                                    random_state |-> settings.random_state,
                                    n_jobs |-> -1], hyperparameters)])
    ELSE IF model_type = "xgboost"
    THEN Return([class |-> "XGBRegressor", fitted |-> None,
                 params |-> Update([n_estimators |-> settings.n_estimators,
                                    max_depth |-> settings.max_depth,
                                    learning_rate |-> 10,
                                    random_state |-> settings.random_state,
                                    tree_method |-> "hist"], hyperparameters)])
    ELSE Raise("ValueError", "Unsupported model type")

Abs(x) == IF x < 0 THEN -x ELSE x

Errors(y, y_pred, idx) == [k \in 1..Len(idx) |-> Abs(y[idx[k]].v - y_pred[idx[k]])]
Squares(err) == [k \in 1..Len(err) |-> err[k] * err[k]]
Metrics(err) == [mae |-> Mean(err, 0), mse |-> Mean(Squares(err), 0)]

\* The evaluation on the held-out rows: mae, and mse for rmse (its square);
\* r2 and mape are further functions of the same y_test and y_pred.
Evaluate(est, X, y, rows) ==
    IF \E i \in rows : IsNull(y[i])
    THEN Raise("ValueError", "Input contains NaN")
    ELSE Return(Metrics(Computed(Errors(y, EstimatorPredict(est, X), SetToSortedSeq(rows)))))

\* train(X, y, hyperparameters) on instance self, the clock reading `clock`.
train(self, X, y, hyperparameters, clock) ==
    Let([self EXCEPT !.training_samples = Len(y) - TestCount(Len(y)),
                     !.test_samples = TestCount(Len(y))],
        LAMBDA split :
    Let(_create_model(self.model_type, hyperparameters),
        LAMBDA created :
           IF created.exc # "" THEN [out |-> created, self |-> split]
           ELSE
    Let(EstimatorFit(created.value, X, y, (1..Len(y)) \ TestRows(Len(y))),
        LAMBDA fit :
           IF fit.exc # ""
           THEN [out |-> fit, self |-> [split EXCEPT !.model = created.value]]
           ELSE
    Let(Evaluate(fit.value, X, y, TestRows(Len(y))),
        LAMBDA metrics :
           IF metrics.exc # ""
           THEN [out |-> metrics, self |-> [split EXCEPT !.model = fit.value]]
           ELSE [out |-> Return(metrics.value),
                 self |-> [split EXCEPT !.model = fit.value,
                                        !.metrics = metrics.value,
                                        !.trained_at = [at |-> clock]]]))))

\* A variant of the clamp that passes the estimator's output through.
Unclamped(a, b) == a

\* np.maximum, on one element.
Max(a, b) == IF a >= b THEN a ELSE b

\* predict(X): the estimator's output, clamped at zero.  An estimator that
\* was created and not fitted raises the library's NotFittedError (a
\* ValueError) from its predict.
predict(self, X) ==
    IF self.model = None THEN Raise("ValueError", "Model not trained or loaded")
    ELSE IF self.model.fitted = None
    THEN Raise("NotFittedError", "Estimator not fitted, call fit before predict")
    ELSE Return([i \in 1..Len(X.of) |-> Max(EstimatorPredict(self.model, X)[i], 0)])

\* A variant that reads and writes the configured path whatever path is asked
\* for.
ConfiguredPath(model_path) == settings.model_path

\* `model_path or settings.model_path`
PathOr(model_path) == IF model_path = "" THEN settings.model_path ELSE model_path

ModelData(self) ==
    [model |-> self.model,
     model_type |-> self.model_type,
     model_version |-> self.model_version,
     metrics |-> self.metrics,
     trained_at |-> self.trained_at,
     training_samples |-> self.training_samples,
     test_samples |-> self.test_samples]

\* save(model_path): the model blob, then the scaler blob.  `fault` names the
\* joblib.dump that raises ("model", "scaler") or is "none".
save(self, model_path, pre, disk, fault) ==
    IF self.model = None
    THEN [out |-> Raise("ValueError", "No model to save"), storage |-> disk]
    ELSE IF fault = "model"
    THEN [out |-> Raise("OSError", "dump failed"), storage |-> disk]
    ELSE IF fault = "scaler"
    THEN [out |-> Raise("OSError", "dump failed"),
          storage |-> [disk EXCEPT ![PathOr(model_path)] = ModelData(self)]]
    ELSE [out |-> Return(None),
          storage |-> [disk EXCEPT ![PathOr(model_path)] = ModelData(self),
                                   ![settings.feature_scaler_path] = pre.scaler]]

\* A variant that restores the estimator and leaves the timestamp and the
\* sample counts as __init__ set them.
RestoredEstimatorOnly(model_data) ==
    [model_type |-> model_data.model_type,
     model |-> model_data.model,
     metrics |-> model_data.metrics,
     trained_at |-> None,
     training_samples |-> 0,
     test_samples |-> 0,
     model_version |-> model_data.model_version]

\* The attributes load() assigns from model_data.
Restored(model_data) ==
    [model_type |-> model_data.model_type,
     model |-> model_data.model,
     metrics |-> model_data.metrics,
     trained_at |-> model_data.trained_at,
     training_samples |-> model_data.training_samples,
     test_samples |-> model_data.test_samples,
     model_version |-> model_data.model_version]

\* load(model_path): the instance restored from the blob, and the attributes
\* of the preprocessor it assigns when a scaler blob exists.
load(self, model_path, disk) ==
    IF disk[PathOr(model_path)] = None
    THEN [out |-> Raise("FileNotFoundError", "Model not found"),
          self |-> self, set |-> NoAssign]
    ELSE [out |-> Return(None),
          self |-> Restored(disk[PathOr(model_path)]),
          set |-> IF disk[settings.feature_scaler_path] = None THEN NoAssign
                  ELSE [scaler |-> disk[settings.feature_scaler_path],
                        is_fitted |-> TRUE]]

-----------------------------------------------------------------------------
(* ModelManager.  train_new_model and load_model yield their outcome and the *)
(* state they leave: the manager's current_model, the global preprocessor,   *)
(* the storage and the clock.                                                *)

State(cm, pre, disk, clock) ==
    [current_model |-> cm, preprocessor |-> pre, storage |-> disk, now |-> clock]

\* A variant of the size check that asks for five records only.
InsufficientBelowFive(training_data) == Len(training_data) < 5

\* len(training_data) < 10
Insufficient(training_data) == Len(training_data) < 10

\* train_new_model(model_type, hyperparameters, data_limit) with the table
\* holding `size` rows; `fault` is the dump of save() that raises, if any.
train_new_model(cm, pre, disk, clock, model_type, hyperparameters, data_limit, size, fault) ==
    IF Insufficient(FetchedTrainingData[<<size, data_limit>>])
    THEN [out |-> Raise("ValueError", "Insufficient training data"),
          state |-> State(cm, pre, disk, clock)]
    ELSE
    Let(prepare_training_data(pre, FetchedTrainingData[<<size, data_limit>>]),
        LAMBDA prepared :
           IF prepared.out.exc # ""
           THEN [out |-> prepared.out,
                 state |-> State(cm, Assign(pre, prepared.set), disk, clock)]
           ELSE
    Let(train(TrafficPredictionModel(IF model_type = "" THEN settings.model_type
                                     ELSE model_type),
              prepared.out.value.X, prepared.out.value.y, hyperparameters, clock + 1),
        LAMBDA trained :
           IF trained.out.exc # ""
           THEN [out |-> trained.out,
                 state |-> State(cm, Assign(pre, prepared.set), disk, clock)]
           ELSE
    Let(save(trained.self, "", Assign(pre, prepared.set), disk, fault),
        LAMBDA saved :
           IF saved.out.exc # ""
           THEN [out |-> saved.out,
                 state |-> State(cm, Assign(pre, prepared.set), saved.storage, clock + 1)]
           ELSE [out |-> Return([model |-> trained.self, metrics |-> trained.out.value]),
                 state |-> State(trained.self, Assign(pre, prepared.set),
                                 saved.storage, clock + 1)])))

\* A variant of load_model that takes the slot before it loads.
load_model_eager(cm, pre, disk, clock, model_path) ==
    Let(load(TrafficPredictionModel(settings.model_type), model_path, disk),
        LAMBDA loaded :
           IF loaded.out.exc # ""
           THEN [out |-> loaded.out, state |-> State(loaded.self, pre, disk, clock)]
           ELSE [out |-> Return(loaded.self),
                 state |-> State(loaded.self, Assign(pre, loaded.set), disk, clock)])

\* load_model(model_path): a new instance, load(), then the slot.
load_model(cm, pre, disk, clock, model_path) ==
    Let(load(TrafficPredictionModel(settings.model_type), model_path, disk),
        LAMBDA loaded :
           IF loaded.out.exc # ""
           THEN [out |-> loaded.out, state |-> State(cm, pre, disk, clock)]
           ELSE [out |-> Return(loaded.self),
                 state |-> State(loaded.self, Assign(pre, loaded.set), disk, clock)])

\* features.get('max_speed_kmh', 60): the default only when the key is absent.
MaxSpeedOf(features) ==
    IF "max_speed_kmh" \in DOMAIN features THEN features["max_speed_kmh"]
    ELSE Num(60 * Unit)

Prediction(speed_pred, congestion_level) ==
    IF congestion_level.exc # "" THEN congestion_level
    ELSE Return([predicted_speed |-> speed_pred,
                 congestion_level |-> congestion_level.value])

PredictionOf(predictions, max_speed) ==
    IF predictions.exc # "" THEN predictions
    ELSE Prediction(predictions.value[1],
                    encode_congestion_level(predictions.value[1], max_speed))

\* ModelManager.predict(features): its outcome, and what it assigned in the
\* preprocessor.
manager_predict(cm, pre, features) ==
    IF cm = None
    THEN [out |-> Raise("ValueError", "No model loaded"), set |-> NoAssign]
    ELSE Then(pre, prepare_prediction_features(pre, features),
              LAMBDA self, X :
                 [out |-> PredictionOf(predict(cm, X), MaxSpeedOf(features)),
                  set |-> NoAssign])

\* A process start: fresh module globals, then main.lifespan, which loads the
\* model at settings.model_path when one exists and logs a failure to load.
lifespan(disk, clock) ==
    IF disk[settings.model_path] # None
    THEN load_model(None, FeaturePreprocessor, disk, clock, "")
    ELSE [out |-> Return(None), state |-> State(None, FeaturePreprocessor, disk, clock)]

-----------------------------------------------------------------------------
(* Inputs *)

AltPath == "./models/candidate.pkl"
Paths == {settings.model_path, settings.feature_scaler_path, AltPath}

ModelTypes == {"", "randomforest", "svm"}
Hyperparameters == {NoHyperparameters, [n_estimators |-> 0]}
Faults == {"none", "model", "scaler"}

Request(model_type, hyperparameters, data_limit, size, fault) ==
    [model_type |-> model_type, hyperparameters |-> hyperparameters,
     data_limit |-> data_limit, size |-> size, fault |-> fault]

\* The training requests: every table and limit with the defaults; on the
\* full table also each fault of save(), another supported kind, an
\* unsupported kind, and hyperparameters the estimator rejects.
TrainRequests ==
    {Request("", NoHyperparameters, l, s, "none") : s \in TableSizes, l \in Limits}
    \cup {Request("", NoHyperparameters, l, MaxTableRows, f) : l \in Limits, f \in Faults}
    \cup {Request(t, NoHyperparameters, 0, MaxTableRows, "none") : t \in ModelTypes}
    \cup {Request("", h, DataLimit, MaxTableRows, "none") : h \in Hyperparameters}

Without(r, k) == [c \in DOMAIN r \ {k} |-> r[c]]
With(r, k, v) == [c \in DOMAIN r \cup {k} |-> IF c = k THEN v ELSE r[c]]

\* FeatureVector.model_dump() of a request built from row ts.
FeatureVector(ts) ==
    Without(Without(ml_features_row(ts), "target_speed_kmh"), "target_congestion_level")

\* The records predict is called with: two rows as they are, max_speed_kmh
\* null, zero and missing, and an avg_speed_historical between the means of
\* that column in the two training sets.
PredictRecords ==
    {FeatureVector(1), FeatureVector(9),
     With(FeatureVector(1), "max_speed_kmh", NaN),
     With(FeatureVector(9), "max_speed_kmh", Num(0)),
     Without(FeatureVector(9), "max_speed_kmh"),
     With(FeatureVector(1), "avg_speed_historical", Num(37 * Unit))}

-----------------------------------------------------------------------------
(* The service *)

Called(op, arg, out) == [op |-> op, arg |-> arg, out |-> out]

Init ==
    /\ current_model = None
    /\ preprocessor = FeaturePreprocessor
    /\ storage = [p \in Paths |-> None]
    /\ now = 0
    /\ calls = NoCalls
    /\ result = Called("init", None, Return(None))

Become(state) ==
    /\ current_model' = state.current_model
    /\ preprocessor' = state.preprocessor
    /\ storage' = state.storage
    /\ now' = state.now
    /\ UNCHANGED calls

TrainOn(requests) ==
    /\ now < MaxClock
    /\ \E request \in requests :
       \E r \in {train_new_model(current_model, preprocessor, storage, now,
                                 request.model_type, request.hyperparameters,
                                 request.data_limit, request.size, request.fault)} :
          /\ Become(r.state)
          /\ result' = Called("train_new_model", request, r.out)

TrainNewModel == TrainOn(TrainRequests)

LoadModel ==
    \E model_path \in {"", AltPath} :
    \E r \in {load_model(current_model, preprocessor, storage, now, model_path)} :
       /\ Become(r.state)
       /\ result' = Called("load_model", model_path, r.out)

\* model_manager.get_model().save(model_path)
Save ==
    /\ current_model # None
    /\ \E model_path \in {"", AltPath}, fault \in Faults :
       \E r \in {save(current_model, model_path, preprocessor, storage, fault)} :
          /\ storage' = r.storage
          /\ result' = Called("save", [model_path |-> model_path, fault |-> fault], r.out)
          /\ UNCHANGED <<current_model, preprocessor, now, calls>>

Predict ==
    \E features \in PredictRecords :
    \E r \in {manager_predict(current_model, preprocessor, features)} :
       /\ preprocessor' = Assign(preprocessor, r.set)
       /\ result' = Called("predict", features, r.out)
       /\ UNCHANGED <<current_model, storage, now, calls>>

Startup ==
    \E r \in {lifespan(storage, now)} :
       /\ Become(r.state)
       /\ result' = Called("startup", None, r.out)

Next == TrainNewModel \/ LoadModel \/ Save \/ Predict \/ Startup

Spec == Init /\ [][Next]_vars

-----------------------------------------------------------------------------
(* Claims about the model lifecycle, checked under Spec *)

Succeeded(op) == result.op = op /\ result.out.exc = ""

\* C1: whenever load_model has just succeeded, the in-memory scaler (the one
\* the next predictions use) is the scaler that was fit in the training run
\* that produced the loaded model, i.e. the one its training matrix was
\* standardized by.
C1_LoadedScalerIsTheModels ==
    Succeeded("load_model") =>
        preprocessor.scaler = current_model.model.fitted.scaled_by

\* The scaler a training call fits: StandardScaler.fit on the prepared rows
\* the data source returns for the call.
RefitOn == Computed([k \in TableSizes \X Limits |->
                        ScalerFit(prepare_features(FetchedTrainingData[k]).value)])

RequestedType(request) ==
    IF request.model_type = "" THEN settings.model_type ELSE request.model_type

\* C2: when train_new_model has just returned, the current-model slot holds
\* the model it returned, which was trained in this call (its timestamp is
\* this call's clock reading, its kind the requested one, its sample counts
\* and its estimator come from this call's data); the blob at the configured
\* model path is that model; the in-memory scaler is fitted, is the scaler
\* fit on this call's training data, and is the blob at the configured
\* scaler path.
C2_TrainReplacesModelAndScaler ==
    Succeeded("train_new_model") =>
        /\ current_model = result.out.value.model
        /\ current_model.trained_at = [at |-> now]
        /\ current_model.model_type = RequestedType(result.arg)
        /\ current_model.training_samples + current_model.test_samples =
              Len(FetchedTrainingData[<<result.arg.size, result.arg.data_limit>>])
        /\ current_model.model.fitted.scaled_by =
              RefitOn[<<result.arg.size, result.arg.data_limit>>]
        /\ current_model.metrics = result.out.value.metrics
        /\ storage[settings.model_path] = ModelData(current_model)
        /\ preprocessor.is_fitted
        /\ preprocessor.scaler = RefitOn[<<result.arg.size, result.arg.data_limit>>]
        /\ storage[settings.feature_scaler_path] = preprocessor.scaler

\* A second successful training, on other data than the first: the scaler in
\* memory was fitted before the call and the model slot was taken.
C2_Witness ==
    /\ Succeeded("train_new_model")
    /\ now = 2
    /\ result.arg.data_limit = DataLimit
    /\ current_model.training_samples + current_model.test_samples = DataLimit
    /\ storage[AltPath] # None
    /\ storage[AltPath].training_samples + storage[AltPath].test_samples > DataLimit

\* C3: a predict in a state without a current model raises "No model loaded"
\* and returns nothing; the slot goes from empty to taken only by a
\* train_new_model or load_model (the one at startup included) that
\* succeeded; a train_new_model or load_model that failed leaves the slot as
\* it was.
C3_PredictNeedsLoadedModel ==
    [][/\ (result'.op = "predict" /\ current_model = None) =>
              result'.out = Raise("ValueError", "No model loaded")
       /\ (current_model = None /\ current_model' # None) =>
              /\ result'.op \in {"train_new_model", "load_model", "startup"}
              /\ result'.out.exc = ""
       /\ (result'.op \in {"train_new_model", "load_model"} /\ result'.out.exc # "") =>
              current_model' = current_model]_vars

\* A predict that failed for want of a model although a model blob is on
\* disk: a training run wrote it and then failed.
C3_Witness ==
    /\ result.op = "predict"
    /\ current_model = None
    /\ result.out = Raise("ValueError", "No model loaded")
    /\ storage[settings.model_path] # None

\* C4: a train_new_model for which the data source yields fewer than 10
\* labeled records raises the "Insufficient training data" ValueError and
\* leaves the current model, the preprocessor (scaler and fitted flag) and
\* the storage (model and scaler blobs) as they were.
C4_TooFewRecordsChangesNothing ==
    [][(/\ result'.op = "train_new_model"
        /\ Len(FetchedTrainingData[<<result'.arg.size, result'.arg.data_limit>>]) < 10) =>
           /\ result'.out = Raise("ValueError", "Insufficient training data")
           /\ UNCHANGED <<current_model, preprocessor, storage>>]_vars

\* Such a failure in a state that holds a model, a fitted scaler and blobs.
C4_Witness ==
    /\ result.op = "train_new_model"
    /\ Len(FetchedTrainingData[<<result.arg.size, result.arg.data_limit>>]) < 10
    /\ result.out.exc = "ValueError"
    /\ current_model # None
    /\ preprocessor.is_fitted
    /\ storage[settings.feature_scaler_path] # None

\* C6: in every state with a current model the scaler is fitted.
C6_CurrentModelHasFittedScaler ==
    current_model # None => preprocessor.is_fitted

MaxSpeedDefaulted(features) ==
    \/ "max_speed_kmh" \notin DOMAIN features
    \/ IsNull(features["max_speed_kmh"])
    \/ features["max_speed_kmh"].v = 0

\* C9: with a current model, predict returns a (speed, congestion level)
\* pair for every record, and for a record whose max-speed field is missing,
\* null or zero the level is the one computed with max speed 60.
C9_PredictDefaultsMaxSpeed ==
    (result.op = "predict" /\ current_model # None) =>
        /\ result.out.exc = ""
        /\ MaxSpeedDefaulted(result.arg) =>
              result.out.value.congestion_level =
                 encode_congestion_level(result.out.value.predicted_speed,
                                         Num(60 * Unit)).value

-----------------------------------------------------------------------------
(* The preprocessor's methods called directly, next to a training run and    *)
(* predictions                                                               *)

Baseline == Request("", NoHyperparameters, 0, MaxTableRows, "none")

InferenceMatrices ==
    {<<>>,
     prepare_features(<<FeatureVector(1)>>).value,
     prepare_features(<<FeatureVector(1), FeatureVector(9)>>).value,
     prepare_features(<<FeatureVector(2), FeatureVector(3), FeatureVector(4)>>).value}

Calling(op, arg, r) ==
    /\ preprocessor' = Assign(preprocessor, r.set)
    /\ result' = Called(op, arg, r.out)
    /\ UNCHANGED <<current_model, storage, now, calls>>

FitTransform ==
    \E X \in InferenceMatrices :
    \E r \in {fit_transform(preprocessor, X)} : Calling("fit_transform", X, r)

Transform ==
    \E X \in InferenceMatrices :
    \E r \in {transform(preprocessor, X)} : Calling("transform", X, r)

PreparePredictionFeatures ==
    \E features \in PredictRecords :
    \E r \in {prepare_prediction_features(preprocessor, features)} :
       Calling("prepare_prediction_features", features, r)

NextInference ==
    TrainOn({Baseline}) \/ FitTransform \/ Transform \/ PreparePredictionFeatures \/ Predict

SpecInference == Init /\ [][NextInference]_vars

\* C5: transform, prepare_prediction_features and ModelManager.predict leave
\* the preprocessor (scaler parameters and fitted flag) as it was, and a
\* transform that follows a fit_transform of the same matrix returns the
\* matrix fit_transform returned.
C5_InferenceKeepsScalerState ==
    [][/\ result'.op \in {"transform", "prepare_prediction_features", "predict"} =>
              preprocessor' = preprocessor
       /\ (/\ result.op = "fit_transform" /\ result.out.exc = ""
           /\ result'.op = "transform" /\ result'.arg = result.arg) =>
              result'.out = result.out]_vars

\* A transform of the matrix the scaler was fit on, by that scaler.
C5_Witness ==
    /\ Succeeded("transform")
    /\ preprocessor.is_fitted
    /\ Len(result.arg) > 1
    /\ result.out.value = Matrix(ScalerFit(result.arg), result.arg)

-----------------------------------------------------------------------------
(* prepare_features and prepare_training_data as functions of the batch *)

MaxBatch == 2

Sparse == [hour_of_day |-> Num(8 * Unit), is_weekend |-> Bool(FALSE)]

BatchRecords ==
    {ml_features_row(1), ml_features_row(2), ml_features_row(5), ml_features_row(6),
     Without(ml_features_row(2), "target_speed_kmh"),
     With(FeatureVector(1), "avg_speed_historical", NaN),
     With(ml_features_row(1), "is_raining", NaN),
     With(FeatureVector(2), "hour_of_day", NaN),
     Sparse}

Batches == UNION {[1..n -> BatchRecords] : n \in 1..MaxBatch}

InitPrepare ==
    /\ current_model = None
    /\ preprocessor = FeaturePreprocessor
    /\ storage = [p \in Paths |-> None]
    /\ now = 0
    /\ calls = NoCalls
    /\ \E data \in Batches : result = Called("input", data, Return(None))

PrepareFeatures ==
    /\ result.op = "input"
    /\ result' = Called("prepare_features", result.arg, prepare_features(result.arg))
    /\ UNCHANGED <<current_model, preprocessor, storage, now, calls>>

PrepareTrainingData ==
    /\ result.op = "input"
    /\ \E r \in {prepare_training_data(preprocessor, result.arg)} :
          Calling("prepare_training_data", result.arg, r)

NextPrepare == PrepareFeatures \/ PrepareTrainingData

SpecPrepare == InitPrepare /\ [][NextPrepare]_vars

\* The fixed default-value table: every entry of numeric_fills that is a
\* constant.
FixedDefaults == Without(numeric_fills(DataFrame(<<>>)), "avg_speed_historical")

HasValue(record, name) == name \in DOMAIN record /\ ~IsNull(record[name])

\* C7: prepare_features returns, for every batch, a matrix with one row per
\* record and exactly the FEATURE_ORDER columns in that order (a value a
\* record carries stands in its feature's column), in which no cell is null:
\* a null or missing value of a feature with a fixed default is that
\* default, and a feature no record of the batch names is a column of zeros.
C7_PrepareGivesCompleteMatrix ==
    result.op = "prepare_features" =>
        /\ result.out.exc = ""
        /\ Len(result.out.value) = Len(result.arg)
        /\ \A i \in 1..Len(result.arg) :
              /\ DOMAIN result.out.value[i] = 1..NFeatures
              /\ \A j \in 1..NFeatures :
                    /\ ~IsNull(result.out.value[i][j])
                    /\ HasValue(result.arg[i], FEATURE_ORDER[j]) =>
                          result.out.value[i][j].v =
                             IF FEATURE_ORDER[j] \in bool_columns
                             THEN result.arg[i][FEATURE_ORDER[j]].v * Unit
                             ELSE result.arg[i][FEATURE_ORDER[j]].v
                    /\ (/\ ~HasValue(result.arg[i], FEATURE_ORDER[j])
                        /\ FEATURE_ORDER[j] \in DOMAIN FixedDefaults
                        /\ FEATURE_ORDER[j] \in Columns(result.arg)) =>
                          result.out.value[i][j] = FixedDefaults[FEATURE_ORDER[j]]
                    /\ FEATURE_ORDER[j] \notin Columns(result.arg) =>
                          result.out.value[i][j] = Num(0)

\* C10: prepare_training_data raises its ValueError whenever a record of the
\* batch has no target_speed_kmh value (the key missing or null), and
\* returns (X, y) only when every record has one.
C10_EveryRecordNeedsTarget ==
    result.op = "prepare_training_data" =>
        /\ (\E i \in 1..Len(result.arg) : ~HasValue(result.arg[i], "target_speed_kmh")) =>
              result.out = Raise("ValueError", "Training data must contain target_speed_kmh")
        /\ result.out.exc = "" =>
              \A i \in 1..Len(result.arg) : HasValue(result.arg[i], "target_speed_kmh")

-----------------------------------------------------------------------------
(* encode_congestion_level as a function of (speed_kmh, max_speed_kmh) *)

MaxSpeedTenths == 800
MaxSpeedLimit == 10

\* Speeds in steps of 0.1 km/h, speed limits in steps of 10 km/h, and 0.
Speeds == {k * (Unit \div 10) : k \in 0..MaxSpeedTenths}
SpeedLimits == {k * 10 * Unit : k \in 0..MaxSpeedLimit}

InitCongestion ==
    /\ current_model = None
    /\ preprocessor = FeaturePreprocessor
    /\ storage = [p \in Paths |-> None]
    /\ now = 0
    /\ calls = NoCalls
    /\ \E s \in Speeds, m \in SpeedLimits :
          result = Called("input", [speed_kmh |-> s, max_speed_kmh |-> m], Return(None))

EncodeCongestionLevel ==
    /\ result.op = "input"
    /\ result' = Called("encode_congestion_level", result.arg,
                        encode_congestion_level(result.arg.speed_kmh,
                                                Num(result.arg.max_speed_kmh)))
    /\ UNCHANGED <<current_model, preprocessor, storage, now, calls>>

SpecCongestion == InitCongestion /\ [][EncodeCongestionLevel]_vars

\* The reference rule, on the ratio in thousandths rounded down.
ReferenceLevel(speed, max_speed) ==
    LET permille == (1000 * speed) \div (IF max_speed # 0 THEN max_speed ELSE 60 * Unit)
    IN IF permille >= 700 THEN "low"
       ELSE IF permille >= 500 THEN "moderate"
       ELSE IF permille >= 300 THEN "high"
       ELSE "severe"

\* C8: for a speed >= 0 and a max_speed >= 0, encode_congestion_level returns
\* the level of the reference rule; a ratio exactly 0.7, 0.5 or 0.3 gives
\* low, moderate or high; max_speed 0 gives what max_speed 60 gives.
C8_CongestionLevelIsReference ==
    result.op = "encode_congestion_level" =>
        LET speed == result.arg.speed_kmh
            max_speed == result.arg.max_speed_kmh
            m == IF max_speed # 0 THEN max_speed ELSE 60 * Unit
        IN /\ result.out = Return(ReferenceLevel(speed, max_speed))
           /\ 10 * speed = 7 * m => result.out.value = "low"
           /\ 10 * speed = 5 * m => result.out.value = "moderate"
           /\ 10 * speed = 3 * m => result.out.value = "high"
           /\ max_speed = 0 =>
                 result.out = encode_congestion_level(speed, Num(60 * Unit))

\* 42 km/h with max_speed 0: the ratio is exactly 0.7 of the default 60.
C8_Witness ==
    /\ result.op = "encode_congestion_level"
    /\ result.arg = [speed_kmh |-> 42 * Unit, max_speed_kmh |-> 0]
    /\ result.out = Return("low")

-----------------------------------------------------------------------------
(* Failure paths and the save/load round trip, checked under Spec *)

\* The kinds _create_model has a branch for.
SupportedKinds == {"lightgbm", "randomforest", "xgboost"}

\* C11: a train_new_model for a kind outside the supported set raises a
\* ValueError (no estimator of another kind is built) and leaves the current
\* model, the preprocessor (scaler and fitted flag) and the storage as they
\* were before the call.
C11_UnsupportedKindChangesNothing ==
    [][(/\ result'.op = "train_new_model"
        /\ RequestedType(result'.arg) \notin SupportedKinds) =>
           /\ result'.out.exc = "ValueError"
           /\ UNCHANGED <<current_model, preprocessor, storage>>]_vars

\* The file a load_model(model_path) call asks for.
RequestedPath(model_path) ==
    IF model_path = "" THEN "./models/traffic_model.pkl" ELSE model_path

\* C12: a load_model for a path at which no model blob exists raises
\* FileNotFoundError and leaves the current model, the preprocessor (scaler
\* and fitted flag) and the storage as they were, so every record is
\* predicted as before the call.
C12_MissingModelChangesNothing ==
    [][(/\ result'.op = "load_model"
        /\ storage[RequestedPath(result'.arg)] = None) =>
           /\ result'.out = Raise("FileNotFoundError", "Model not found")
           /\ UNCHANGED <<current_model, preprocessor, storage>>
           /\ \A features \in PredictRecords :
                 manager_predict(current_model', preprocessor', features).out =
                    manager_predict(current_model, preprocessor, features).out]_vars

\* A failed load of the other path while a trained model is current and its
\* blob lies at the configured path.
C12_Witness ==
    /\ result.op = "load_model"
    /\ result.arg = AltPath
    /\ result.out.exc = "FileNotFoundError"
    /\ storage[AltPath] = None
    /\ storage[settings.model_path] # None
    /\ current_model # None

\* The last call wrote a model blob and the scaler blob of a fitted
\* preprocessor: a train_new_model that returned, or a save() that returned.
SavedPair ==
    \/ Succeeded("train_new_model")
    \/ Succeeded("save") /\ preprocessor.is_fitted

SavedPath == IF result.op = "train_new_model" THEN "" ELSE result.arg.model_path

\* The next call loads what was saved: load_model of the saved path, or a
\* process start when the saved path is the configured one.
LoadsSaved(op, arg, saved_path) ==
    \/ op = "load_model" /\ arg = saved_path
    \/ op = "startup" /\ saved_path = ""

\* C13: a load_model (on the same or on a new manager and preprocessor) that
\* follows a successful training or save restores the estimator, the
\* metadata (kind, version, metrics, timestamp, sample counts) and the
\* scaler that were saved, and every record is predicted as before the save.
C13_RoundTrip ==
    [][(SavedPair /\ LoadsSaved(result'.op, result'.arg, SavedPath)) =>
           /\ result'.out.exc = ""
           /\ current_model'.model = current_model.model
           /\ current_model'.model_type = current_model.model_type
           /\ current_model'.model_version = current_model.model_version
           /\ current_model'.metrics = current_model.metrics
           /\ current_model'.trained_at = current_model.trained_at
           /\ current_model'.training_samples = current_model.training_samples
           /\ current_model'.test_samples = current_model.test_samples
           /\ preprocessor' = preprocessor
           /\ \A features \in PredictRecords :
                 manager_predict(current_model', preprocessor', features).out =
                    manager_predict(current_model, preprocessor, features).out]_vars

\* A process start that restored the model and the scaler of the second
\* training run.
C13_Witness ==
    /\ Succeeded("startup")
    /\ current_model # None
    /\ current_model.trained_at = [at |-> 2]
    /\ preprocessor.is_fitted
    /\ preprocessor.scaler = current_model.model.fitted.scaled_by
    /\ storage[settings.model_path] = ModelData(current_model)
    /\ storage[settings.feature_scaler_path] = preprocessor.scaler

\* C18: a train_new_model that fails while a model is current leaves that
\* model current and leaves the preprocessor (the scaler that model's
\* features are scaled by) as it was, so every record is predicted after the
\* failed call as it was before it.
C18_FailedTrainKeepsPredictions ==
    [][(/\ result'.op = "train_new_model"
        /\ result'.out.exc # ""
        /\ current_model # None) =>
           /\ current_model' = current_model
           /\ preprocessor' = preprocessor
           /\ \A features \in PredictRecords :
                 manager_predict(current_model', preprocessor', features).out =
                    manager_predict(current_model, preprocessor, features).out]_vars

-----------------------------------------------------------------------------
(* TrafficPredictionModel.predict as a function of (instance, X) *)

MaxLeaf == 3

\* What a fitted estimator returns on its two leaves, in steps of 10 km/h,
\* negative values included.
Leaves == {k * 10 * Unit : k \in -MaxLeaf..MaxLeaf}

FittedWith(est, by, left, right) ==
    [est EXCEPT !.fitted = [scaled_by |-> by, left |-> left, right |-> right]]

\* Instances as __init__ leaves them, as a train() that failed at fit leaves
\* them (estimator created, not fitted), and with a fitted estimator.
Instances ==
    {TrafficPredictionModel(t) : t \in SupportedKinds}
    \cup {[TrafficPredictionModel(t) EXCEPT
              !.model = _create_model(t, NoHyperparameters).value] : t \in SupportedKinds}
    \cup {[TrafficPredictionModel("lightgbm") EXCEPT
              !.model = FittedWith(_create_model("lightgbm", NoHyperparameters).value,
                                   by, l, r)] :
             by \in {None, RefitOn[<<MaxTableRows, 0>>]}, l \in Leaves, r \in Leaves}

PredictMatrices ==
    {prepare_features(<<FeatureVector(1)>>).value,
     prepare_features(<<FeatureVector(1), FeatureVector(9)>>).value}

InitModelPredict ==
    /\ current_model = None
    /\ preprocessor = FeaturePreprocessor
    /\ storage = [p \in Paths |-> None]
    /\ now = 0
    /\ calls = NoCalls
    /\ \E self \in Instances, X \in PredictMatrices :
          result = Called("input", [self |-> self, X |-> X], Return(None))

\* self.predict(X), X scaled as the estimator's training matrix was.
ModelPredict ==
    /\ result.op = "input"
    /\ result' = Called("model_predict", result.arg,
                        predict(result.arg.self,
                                Matrix(IF result.arg.self.model = None
                                          \/ result.arg.self.model.fitted = None
                                       THEN None
                                       ELSE result.arg.self.model.fitted.scaled_by,
                                       result.arg.X)))
    /\ UNCHANGED <<current_model, preprocessor, storage, now, calls>>

SpecModelPredict == InitModelPredict /\ [][ModelPredict]_vars

\* The estimator's raw output for row i of the call in `called`.
RawOutput(called, i) ==
    EstimatorPredict(called.arg.self.model,
                     Matrix(called.arg.self.model.fitted.scaled_by, called.arg.X))[i]

\* C14: predict on an instance without an estimator raises "Model not
\* trained or loaded", on an instance whose estimator was never fitted it
\* raises too, and otherwise it returns one value per row, each of them
\* non-negative and equal to the greater of the estimator's output and 0.
C14_PredictClampsOrRaises ==
    result.op = "model_predict" =>
        IF result.arg.self.model = None
        THEN result.out = Raise("ValueError", "Model not trained or loaded")
        ELSE IF result.arg.self.model.fitted = None
        THEN result.out.exc \in {"ValueError", "NotFittedError"}
        ELSE /\ result.out.exc = ""
             /\ Len(result.out.value) = Len(result.arg.X)
             /\ \A i \in 1..Len(result.arg.X) :
                   /\ result.out.value[i] >= 0
                   /\ result.out.value[i] =
                         IF RawOutput(result, i) > 0 THEN RawOutput(result, i) ELSE 0

\* A call in which the estimator returned a negative speed for one row and a
\* positive one for the other.
C14_Witness ==
    /\ result.op = "model_predict"
    /\ result.out.exc = ""
    /\ Len(result.arg.X) = 2
    /\ \E i, j \in 1..2 :
          /\ RawOutput(result, i) < 0 /\ result.out.value[i] = 0
          /\ RawOutput(result, j) > 0 /\ result.out.value[j] = RawOutput(result, j)

-----------------------------------------------------------------------------
(* The service together with direct calls of the preprocessor's methods *)

NextPreprocessor == Next \/ FitTransform \/ Transform

SpecPreprocessor == Init /\ [][NextPreprocessor]_vars

\* C15: transform on a preprocessor that is not fitted returns its input
\* unchanged; transform on a fitted preprocessor returns its (non-empty)
\* input normalized by the stored scaler statistics; transform never changes
\* the preprocessor; and within a process the fitted flag, once set, stays
\* set.
C15_TransformFollowsFittedFlag ==
    [][/\ result'.op = "transform" =>
              /\ preprocessor' = preprocessor
              /\ ~preprocessor.is_fitted =>
                    result'.out = Return(Matrix(None, result'.arg))
              /\ (preprocessor.is_fitted /\ Len(result'.arg) > 0) =>
                    /\ preprocessor.scaler # StandardScaler
                    /\ result'.out = Return(Matrix(preprocessor.scaler, result'.arg))
       /\ (preprocessor.is_fitted /\ result'.op # "startup") =>
              preprocessor'.is_fitted]_vars

-----------------------------------------------------------------------------
(* Calls that overlap.  ModelManager, the global preprocessor and the files  *)
(* carry no lock.  The endpoints of main.py call train_new_model and predict *)
(* inline, one request at a time; calls overlap once a caller runs them on   *)
(* threads, as train_model_background (main.py) is written to be run.  Here  *)
(* two train_new_model calls and a caller of predict run as threads.  A step *)
(* is one access to the shared state together with the thread-local          *)
(* computation that follows it; scaler.fit and each joblib.dump count as one *)
(* access.                                                                   *)

Trainers == {"train_1", "train_2"}
Predictor == "predict"

\* The calls differ in data_limit, hence in rows, scaler and estimator; one
\* request has hyperparameters the estimator rejects at fit.
ConcurrentRequests ==
    {Request("", NoHyperparameters, l, MaxTableRows, "none") : l \in Limits}
    \cup {Request("", [n_estimators |-> 0], DataLimit, MaxTableRows, "none")}

ConcurrentRecords == {FeatureVector(1), FeatureVector(9)}

\* A train_new_model frame: where the call stands, its arguments, the scaler
\* its fit_scaler fit, and its `model` local.
TrainFrame(pc, request, fitted, model) ==
    [pc |-> pc, request |-> request, fitted |-> fitted, model |-> model]

\* A predict frame: where the call stands, its `features` argument, its `X`
\* local, and the model its self.current_model.predict(X) ran on.
PredictFrame(pc, features, X, used) ==
    [pc |-> pc, features |-> features, X |-> X, used |-> used]

InitConcurrent ==
    /\ current_model = None
    /\ preprocessor = FeaturePreprocessor
    /\ storage = [p \in Paths |-> None]
    /\ now = 0
    /\ result = Called("init", None, Return(None))
    /\ calls = [t \in Trainers \cup {Predictor} |->
                  IF t \in Trainers THEN TrainFrame("start", None, None, None)
                  ELSE PredictFrame("start", None, None, None)]

TrainingDataOf(request) == FetchedTrainingData[<<request.size, request.data_limit>>]

\* joblib.dump(model_data, path) and joblib.dump(preprocessor.scaler,
\* scaler_path), each on its own.
dump_model(self, model_path, disk) ==
    [disk EXCEPT ![PathOr(model_path)] = ModelData(self)]

\* A variant of the scaler dump that writes nothing.
dump_scaler_skipped(pre, disk) == disk

dump_scaler(pre, disk) ==
    [disk EXCEPT ![settings.feature_scaler_path] = pre.scaler]

\* The call ends by raising `out`.
Raises(t, out) ==
    /\ calls' = [calls EXCEPT ![t].pc = "raised"]
    /\ result' = Called("train_new_model", calls[t].request, out)

\* fetch_training_data, the size check, and prepare_training_data up to its
\* fit_transform: all local to the call.
TrainFetch(t) ==
    /\ calls[t].pc = "start"
    /\ \E request \in ConcurrentRequests :
          IF Insufficient(TrainingDataOf(request))
          THEN /\ calls' = [calls EXCEPT ![t] = TrainFrame("raised", request, None, None)]
               /\ result' = Called("train_new_model", request,
                                   Raise("ValueError", "Insufficient training data"))
          ELSE /\ calls' = [calls EXCEPT ![t] = TrainFrame("fit_scaler", request, None, None)]
               /\ UNCHANGED result
    /\ UNCHANGED <<current_model, preprocessor, storage, now>>

\* fit_transform, first half: fit_scaler on the global preprocessor.
TrainFitScaler(t) ==
    /\ calls[t].pc = "fit_scaler"
    /\ \E r \in {fit_scaler(prepare_features(TrainingDataOf(calls[t].request)).value)} :
          /\ preprocessor' = Assign(preprocessor, r.set)
          /\ IF r.out.exc # "" THEN Raises(t, r.out)
             ELSE /\ calls' = [calls EXCEPT ![t].pc = "transform",
                                            ![t].fitted = r.set.scaler]
                  /\ UNCHANGED result
    /\ UNCHANGED <<current_model, storage, now>>

\* fit_transform, second half: transform by the global preprocessor as it is
\* now; then, on the call's own objects, the rest of prepare_training_data
\* and model.train.
TrainTransform(t) ==
    /\ calls[t].pc = "transform"
    /\ \E X \in {transform(preprocessor,
                           prepare_features(TrainingDataOf(calls[t].request)).value).out} :
          IF X.exc # ""
          THEN Raises(t, X) /\ UNCHANGED now
          ELSE \E trained \in {train(TrafficPredictionModel(RequestedType(calls[t].request)),
                                     X.value,
                                     ColumnValues(DataFrame(TrainingDataOf(calls[t].request)),
                                                  "target_speed_kmh"),
                                     calls[t].request.hyperparameters, now + 1)} :
                  IF trained.out.exc # ""
                  THEN Raises(t, trained.out) /\ UNCHANGED now
                  ELSE /\ calls' = [calls EXCEPT ![t].pc = "dump_model",
                                                 ![t].model = trained.self]
                       /\ now' = now + 1
                       /\ UNCHANGED result
    /\ UNCHANGED <<current_model, preprocessor, storage>>

\* model.save(), first dump.
TrainDumpModel(t) ==
    /\ calls[t].pc = "dump_model"
    /\ storage' = dump_model(calls[t].model, "", storage)
    /\ calls' = [calls EXCEPT ![t].pc = "dump_scaler"]
    /\ UNCHANGED <<current_model, preprocessor, now, result>>

\* model.save(), second dump: the global scaler as it is now.
TrainDumpScaler(t) ==
    /\ calls[t].pc = "dump_scaler"
    /\ storage' = dump_scaler(preprocessor, storage)
    /\ calls' = [calls EXCEPT ![t].pc = "assign"]
    /\ UNCHANGED <<current_model, preprocessor, now, result>>

\* self.current_model = model; return model, metrics
TrainAssign(t) ==
    /\ calls[t].pc = "assign"
    /\ current_model' = calls[t].model
    /\ calls' = [calls EXCEPT ![t].pc = "returned"]
    /\ result' = Called("train_new_model", calls[t].request,
                        Return([model |-> calls[t].model,
                                metrics |-> calls[t].model.metrics]))
    /\ UNCHANGED <<preprocessor, storage, now>>

\* predict, up to X = preprocessor.prepare_prediction_features(features).
PredictPrepare ==
    /\ calls[Predictor].pc \in {"start", "returned", "raised"}
    /\ \E features \in ConcurrentRecords :
          IF current_model = None
          THEN /\ calls' = [calls EXCEPT
                               ![Predictor] = PredictFrame("raised", features, None, None)]
               /\ result' = Called("predict", features, Raise("ValueError", "No model loaded"))
               /\ UNCHANGED preprocessor
          ELSE \E r \in {prepare_prediction_features(preprocessor, features)} :
                  /\ preprocessor' = Assign(preprocessor, r.set)
                  /\ IF r.out.exc # ""
                     THEN /\ calls' = [calls EXCEPT
                                          ![Predictor] = PredictFrame("raised", features,
                                                                      None, None)]
                          /\ result' = Called("predict", features, r.out)
                     ELSE /\ calls' = [calls EXCEPT
                                          ![Predictor] = PredictFrame("predict", features,
                                                                      r.out.value, None)]
                          /\ UNCHANGED result
    /\ UNCHANGED <<current_model, storage, now>>

\* predict, from self.current_model.predict(X) on: the slot is read again.
PredictRun ==
    /\ calls[Predictor].pc = "predict"
    /\ \E out \in {PredictionOf(predict(current_model, calls[Predictor].X),
                                MaxSpeedOf(calls[Predictor].features))} :
          /\ calls' = [calls EXCEPT
                          ![Predictor].pc = IF out.exc # "" THEN "raised" ELSE "returned",
                          ![Predictor].used = current_model]
          /\ result' = Called("predict", calls[Predictor].features, out)
    /\ UNCHANGED <<current_model, preprocessor, storage, now>>

NextConcurrent ==
    \/ \E t \in Trainers :
          \/ TrainFetch(t) \/ TrainFitScaler(t) \/ TrainTransform(t)
          \/ TrainDumpModel(t) \/ TrainDumpScaler(t) \/ TrainAssign(t)
    \/ PredictPrepare
    \/ PredictRun

SpecConcurrent == InitConcurrent /\ [][NextConcurrent]_vars

Returned == {t \in Trainers : calls[t].pc = "returned"}
Completed == {t \in Trainers : calls[t].pc \in {"returned", "raised"}}

\* The scalers fit by the train_new_model calls so far.
FittedScalers == {calls[t].fitted : t \in {u \in Trainers : calls[u].fitted # None}}

\* C16: once both train_new_model calls are over and one has returned, each
\* artifact is the last one written to its place and nothing ties them
\* together: the current model is the model of a call that returned, the
\* model blob is the model of a call that returned, and the scaler in memory,
\* the scaler blob and the scaler the current model was trained with are
\* each a scaler fit by one of the calls.
C16_LastWriterWinsPerArtifact ==
    (Completed = Trainers /\ Returned # {}) =>
        /\ current_model \in {calls[t].model : t \in Returned}
        /\ storage[settings.model_path] \in {ModelData(calls[t].model) : t \in Returned}
        /\ preprocessor.is_fitted
        /\ preprocessor.scaler \in FittedScalers
        /\ storage[settings.feature_scaler_path] \in FittedScalers
        /\ current_model.model.fitted.scaled_by \in FittedScalers

\* Both calls have returned; the model blob is not the current model, and the
\* scaler in memory and on disk is not the one the current model was trained
\* with.
C16_Witness ==
    /\ Returned = Trainers
    /\ storage[settings.model_path] # ModelData(current_model)
    /\ preprocessor.scaler # current_model.model.fitted.scaled_by
    /\ storage[settings.feature_scaler_path] # current_model.model.fitted.scaled_by

\* C17: a predict that returned ran a model that a train_new_model call had
\* made current, on features scaled by a scaler that one of the calls had
\* fit, and returned that model's prediction for those features; the two
\* need not belong together.
C17_PredictMixesCompleteObjects ==
    calls[Predictor].pc = "returned" =>
        /\ calls[Predictor].used \in {calls[t].model : t \in Returned}
        /\ calls[Predictor].X.by \in FittedScalers
        /\ result.op = "predict" =>
              result.out = PredictionOf(predict(calls[Predictor].used, calls[Predictor].X),
                                        MaxSpeedOf(calls[Predictor].features))

\* A predict that returned while a train_new_model call is between its
\* fit_scaler and its assignment of the slot: the features were scaled by the
\* scaler that call has fit, the estimator is the one of the model that is
\* still current, trained with another scaler.
C17_Witness ==
    /\ calls[Predictor].pc = "returned"
    /\ result.op = "predict"
    /\ calls[Predictor].used = current_model
    /\ \E t \in Trainers :
          /\ calls[t].pc \in {"transform", "dump_model", "dump_scaler", "assign"}
          /\ calls[Predictor].X.by = calls[t].fitted
          /\ calls[Predictor].used.model.fitted.scaled_by # calls[t].fitted

====
